---- MODULE Spec2Model ----
(***************************************************************************)
(* Model of the confession bot's web wrapper (bott/bot_web.py) and of the  *)
(* display layer of its ranking UI (bott/enhanced_ranking_ui.py).          *)
(*                                                                         *)
(* Two specifications share the variables:                                 *)
(*   SpecUI   one display call after another, inputs drawn from bounded    *)
(*            sets, the result of each call kept in the state;             *)
(*   SpecWeb  the __main__ block, the bot thread and the HTTP handlers of  *)
(*            bot_web.py, interleaved.                                     *)
(***************************************************************************)
EXTENDS Integers, Sequences, FiniteSets, TLC

(***************************************************************************)
(* Bounds of the model.                                                    *)
(***************************************************************************)
\* current and maximum of a progress bar range over -MaxPoints..MaxPoints
MaxPoints == 12
\* the streak inputs are -MaxNegStreak..MaxStreak
MaxStreak == 401
MaxNegStreak == 3
\* longest leaderboard passed to the formatter
MaxEntries == 12
\* longest achievement list passed to the formatter
MaxAchievements == 5
\* largest size of the achievement catalogue
MaxCatalogue == 3
\* the wall clock of the web service runs from 0 to MaxTime
MaxTime == 3
\* most updates the bot handles in one run
MaxEvents == 3
\* the leaderboards of the model are numbered 0..MaxSeed
MaxSeed == 3

(***************************************************************************)
(* Python arithmetic.  `current / maximum` is true division into an IEEE   *)
(* 754 double, `progress * length` a double product and int() truncates    *)
(* towards zero.  A double is [s, e, m]: sign s in {-1, 0, 1}, exponent e  *)
(* and the 53 bits m of the significand, most significant first, so that   *)
(* the value is s * 1.m[2..53] * 2^e; zero is [s |-> 0, e |-> 0, m |-> <<>>]*)
(***************************************************************************)
MantBits == 53

Abs(x) == IF x < 0 THEN -x ELSE x

Sgn(x) == IF x < 0 THEN -1 ELSE IF x = 0 THEN 0 ELSE 1

FZero == [s |-> 0, e |-> 0, m |-> <<>>]

RECURSIVE Pow2(_)
Pow2(n) ==
    IF n = 0 THEN 1
    ELSE IF n % 2 = 0 THEN LET h == Pow2(n \div 2) IN h * h
    ELSE 2 * Pow2(n - 1)

\* 2^n modulo d
RECURSIVE PowMod2(_, _)
PowMod2(n, d) ==
    IF n = 0 THEN 1 % d
    ELSE IF n % 2 = 0 THEN LET h == PowMod2(n \div 2, d) IN (h * h) % d
    ELSE (2 * PowMod2(n - 1, d)) % d

\* the integer a sequence of bits stands for (most significant first)
RECURSIVE BitsToInt(_)
BitsToInt(bits) ==
    IF Len(bits) = 0 THEN 0
    ELSE IF Len(bits) = 1 THEN bits[1]
    ELSE LET h == Len(bits) \div 2
         IN  BitsToInt(SubSeq(bits, 1, h)) * Pow2(Len(bits) - h)
                + BitsToInt(SubSeq(bits, h + 1, Len(bits)))

\* n >= 0 on w bits
IntToBitsW(n, w) == [i \in 1..w |-> (n \div Pow2(w - i)) % 2]

\* the number of bits of n, 0 < n < 2^30
BitLen(n) == CHOOSE w \in 1..30 : Pow2(w - 1) <= n /\ n < Pow2(w)

\* bits + 1 on the same width; an all-ones input wraps to all zeros
IncBits(bits) ==
    LET zeros == {i \in 1..Len(bits) : bits[i] = 0}
        k == IF zeros = {} THEN 0 ELSE CHOOSE i \in zeros : \A j \in zeros : j <= i
    IN  [i \in 1..Len(bits) |-> IF i < k THEN bits[i] ELSE IF i = k THEN 1 ELSE 0]

AllOnes(bits) == \A i \in 1..Len(bits) : bits[i] = 1

\* round-half-even of a significand `bits` (MantBits wide, exponent e), given
\* whether the discarded part is above, at or below one half of the last place
RoundNearestEven(s, e, bits, half) ==
    LET up == half = "above" \/ (half = "tie" /\ bits[Len(bits)] = 1)
    IN  IF ~up THEN [s |-> s, e |-> e, m |-> bits]
        ELSE IF AllOnes(bits)
             THEN [s |-> s, e |-> e + 1,
                   m |-> [i \in 1..Len(bits) |-> IF i = 1 THEN 1 ELSE 0]]
             ELSE [s |-> s, e |-> e, m |-> IncBits(bits)]

\* long division of r/den (0 <= r < den): quotient bit i is decided by the
\* remainder left after i - 1 bits, which is r * 2^(i-1) modulo den
DivBit(r, den, i) == (2 * ((r * PowMod2(i - 1, den)) % den)) \div den

DivRem(r, den, n) == (r * PowMod2(n, den)) % den

\* the exponent of a/b for a, b > 0: the e with 2^e <= a/b < 2^(e+1)
RECURSIVE ExpUp(_, _, _)
ExpUp(a, b, e) == IF 2 * b <= a THEN ExpUp(a, 2 * b, e + 1) ELSE e
RECURSIVE ExpDown(_, _, _)
ExpDown(a, b, e) == IF a < b THEN ExpDown(2 * a, b, e - 1) ELSE e

\* a / b of two Python ints, b # 0, |a| and |b| below 2^14: the double nearest
\* to the quotient
FDiv(a, b) ==
    IF a = 0 THEN FZero
    ELSE LET A == Abs(a)
             B == Abs(b)
             e == IF A >= B THEN ExpUp(A, B, 0) ELSE ExpDown(A, B, 0)
             num == IF e < 0 THEN A * Pow2(-e) ELSE A
             den == IF e > 0 THEN B * Pow2(e) ELSE B
             bits == [i \in 1..MantBits |->
                        IF i = 1 THEN 1 ELSE DivBit(num - den, den, i - 1)]
             r == DivRem(num - den, den, MantBits - 1)
             half == IF 2 * r > den THEN "above"
                     ELSE IF 2 * r = den THEN "tie" ELSE "below"
         IN  RoundNearestEven(Sgn(a) * Sgn(b), e, bits, half)

\* bits * k for 0 < k < 2^12 and a MantBits-wide significand, as bits without
\* leading zeros; the product is formed in limbs of W bits
MulBits(bits, k) ==
    LET W == 18
        top == MantBits - 2 * W
        a == BitsToInt(SubSeq(bits, 1, top))
        b == BitsToInt(SubSeq(bits, top + 1, top + W))
        c == BitsToInt(SubSeq(bits, top + W + 1, MantBits))
        t0 == c * k
        t1 == b * k + (t0 \div Pow2(W))
        t2 == a * k + (t1 \div Pow2(W))
    IN  IntToBitsW(t2, BitLen(t2)) \o IntToBitsW(t1 % Pow2(W), W)
            \o IntToBitsW(t0 % Pow2(W), W)

\* x * k of a double and a Python int (converted exactly): the nearest double
FMulInt(x, k) ==
    IF x.s = 0 \/ k = 0 THEN FZero
    ELSE LET p == MulBits(x.m, Abs(k))
             extra == Len(p) - MantBits
             kept == SubSeq(p, 1, MantBits)
             half == IF extra = 0 \/ p[MantBits + 1] = 0 THEN "below"
                     ELSE IF \E i \in (MantBits + 2)..Len(p) : p[i] = 1
                          THEN "above" ELSE "tie"
         IN  RoundNearestEven(x.s * Sgn(k), x.e + extra, kept, half)

\* x < y on doubles
FLess(x, y) ==
    LET magLess(u, v) ==
            \/ u.e < v.e
            \/ /\ u.e = v.e
               /\ \E i \in 1..MantBits :
                     /\ u.m[i] < v.m[i]
                     /\ \A j \in 1..(i - 1) : u.m[j] = v.m[j]
    IN  IF x.s # y.s THEN x.s < y.s
        ELSE IF x.s = 0 THEN FALSE
        ELSE IF x.s = 1 THEN magLess(x, y) ELSE magLess(y, x)

\* int(x): truncation towards zero, |x| < 2^30
FTrunc(x) ==
    IF x.s = 0 \/ x.e < 0 THEN 0
    ELSE x.s * BitsToInt(SubSeq(x.m, 1, x.e + 1))

FOne == FDiv(1, 1)

\* min(x, 1.0) as Python evaluates it: the first argument unless the second is smaller
FMin1(x) == IF FLess(FOne, x) THEN FOne ELSE x

\* f"{x:.1f}" in tenths: x * 10 rounded half-even on the exact value of x
FTenths(x) ==
    IF x.s = 0 THEN 0
    ELSE LET p == MulBits(x.m, 10)
             frac == (MantBits - 1) - x.e
             int == Len(p) - frac
             ip == IF int <= 0 THEN 0 ELSE BitsToInt(SubSeq(p, 1, int))
             half == IF int < 0 \/ p[int + 1] = 0 THEN "below"
                     ELSE IF \E i \in (int + 2)..Len(p) : p[i] = 1
                          THEN "above" ELSE "tie"
             up == half = "above" \/ (half = "tie" /\ ip % 2 = 1)
         IN  x.s * (IF up THEN ip + 1 ELSE ip)

\* the number of glyphs of `glyph * n`: a negative count gives the empty string
StrRepeat(n) == IF n < 0 THEN 0 ELSE n

\* the literals of the progress bands
Lit09 == FDiv(9, 10)
Lit07 == FDiv(7, 10)
Lit05 == FDiv(5, 10)
Lit03 == FDiv(3, 10)

(***************************************************************************)
(* The state.                                                              *)
(***************************************************************************)
VARIABLES
    ui_pc,      \* "idle", "call" (arguments chosen) or "returned"
    ui_fn,      \* the display function called
    ui_args,    \* its arguments
    ui_ret,     \* what it returned or raised
    ui_prev     \* the progress bar call made just before, with current one lower

VARIABLES
    env,        \* os.environ: each variable is "unset", "empty" or has a value
    main_pc,    \* where the __main__ block is
    exit_code,  \* the exit status of the process, -1 while it runs
    bot_pc,     \* where the bot thread is in run_bot
    bot_status, \* the module-level status record
    events,     \* the updates bot_main has taken up, each "handled" or "raised"
    now,        \* datetime.now()
    log,        \* the messages logged so far
    req,        \* the HTTP request being handled
    response    \* the last HTTP response sent

ui_vars == <<ui_pc, ui_fn, ui_args, ui_ret, ui_prev>>

web_vars == <<env, main_pc, exit_code, bot_pc, bot_status, events, now, log, req, response>>

vars == <<ui_vars, web_vars>>

NoArgs == [none |-> TRUE]
NoRet == [status |-> "none"]
NoPrev == [valid |-> FALSE]

Raised(exc) == [status |-> "raised", exc |-> exc]

(***************************************************************************)
(* EnhancedRankingUI.create_advanced_progress_bar                          *)
(***************************************************************************)
\* the default of the `length` parameter, and the length the rank display passes
DefaultLength == 15
RankDisplayLength == 12

Lengths == {DefaultLength, RankDisplayLength}

\* the band selection with the boundaries in the lower band
FillCharStrict(progress) ==
    IF FLess(Lit09, progress) THEN "fire"
    ELSE IF FLess(Lit07, progress) THEN "star"
    ELSE IF FLess(Lit05, progress) THEN "dizzy"
    ELSE IF FLess(Lit03, progress) THEN "sparkles"
    ELSE "glowing_star"

\* lines 35-44: the style of the filled part
FillChar(progress) ==
    IF ~FLess(progress, Lit09) THEN "fire"
    ELSE IF ~FLess(progress, Lit07) THEN "star"
    ELSE IF ~FLess(progress, Lit05) THEN "dizzy"
    ELSE IF ~FLess(progress, Lit03) THEN "sparkles"
    ELSE "glowing_star"

\* lines 30-51; `current / maximum` raises ZeroDivisionError for maximum == 0
ProgressBarBody(current, maximum, length) ==
    IF maximum = 0 THEN Raised("ZeroDivisionError")
    ELSE LET progress == FMin1(FDiv(current, maximum))
             filled == FTrunc(FMulInt(progress, length))
             empty == length - filled
         IN  [status |-> "ok", kind |-> "bar", divided |-> TRUE,
              fill_char |-> FillChar(progress), filled |-> filled,
              fill_glyphs |-> StrRepeat(filled),
              empty |-> empty, empty_glyphs |-> StrRepeat(empty),
              label |-> "percent",
              percentage |-> FTrunc(FMulInt(progress, 100))]

\* the progress bar without the test for maximum == 0
ProgressBarUnguarded(current, maximum, length) ==
    ProgressBarBody(current, maximum, length)

\* the progress bar testing current instead of maximum
ProgressBarGuardsCurrent(current, maximum, length) ==
    IF current = 0
    THEN [status |-> "ok", kind |-> "max", divided |-> FALSE,
          fill_char |-> "fire", filled |-> length,
          fill_glyphs |-> StrRepeat(length),
          empty |-> 0, empty_glyphs |-> 0,
          label |-> "MAX LEVEL", percentage |-> 0]
    ELSE ProgressBarBody(current, maximum, length)

create_advanced_progress_bar(current, maximum, length) ==
    IF maximum = 0
    THEN [status |-> "ok", kind |-> "max", divided |-> FALSE,
          fill_char |-> "fire", filled |-> length,
          fill_glyphs |-> StrRepeat(length),
          empty |-> 0, empty_glyphs |-> 0,
          label |-> "MAX LEVEL", percentage |-> 0]
    ELSE ProgressBarBody(current, maximum, length)

(***************************************************************************)
(* EnhancedRankingUI.create_streak_visualization                           *)
(***************************************************************************)
StreakLabel(emoji, days, phrase) ==
    [status |-> "ok", emoji |-> emoji, shows_days |-> TRUE, days |-> days,
     phrase |-> phrase]

\* the classifier with the boundaries in the lower band
StreakBoundariesLow(streak_days) ==
    IF streak_days = 0
    THEN [status |-> "ok", emoji |-> "calendar", shows_days |-> FALSE, days |-> 0,
          phrase |-> "No streak yet - start your journey!"]
    ELSE IF streak_days <= 7 THEN StreakLabel("fire", streak_days, "keep it up!")
    ELSE IF streak_days <= 30 THEN StreakLabel("zap", streak_days, "you're on fire!")
    ELSE IF streak_days <= 90 THEN StreakLabel("rocket", streak_days, "amazing dedication!")
    ELSE IF streak_days <= 365 THEN StreakLabel("crown", streak_days, "you're a legend!")
    ELSE StreakLabel("glowing_star", streak_days, "ULTIMATE DEVOTEE!")

create_streak_visualization(streak_days) ==
    IF streak_days = 0
    THEN [status |-> "ok", emoji |-> "calendar", shows_days |-> FALSE, days |-> 0,
          phrase |-> "No streak yet - start your journey!"]
    ELSE IF streak_days < 7 THEN StreakLabel("fire", streak_days, "keep it up!")
    ELSE IF streak_days < 30 THEN StreakLabel("zap", streak_days, "you're on fire!")
    ELSE IF streak_days < 90 THEN StreakLabel("rocket", streak_days, "amazing dedication!")
    ELSE IF streak_days < 365 THEN StreakLabel("crown", streak_days, "you're a legend!")
    ELSE StreakLabel("glowing_star", streak_days, "ULTIMATE DEVOTEE!")

(***************************************************************************)
(* Helpers of the formatters.                                              *)
(***************************************************************************)
\* utils.escape_markdown_text: the escaped form of a text
escape_markdown_text(text) == <<"escaped", text>>

\* str.title() and str.lower() on the strings the model passes
TitleCase(str) ==
    CASE str = "weekly" -> "Weekly"
      [] str = "alltime" -> "Alltime"
      [] str = "seasonal" -> "Seasonal"
      [] str = "streak" -> "Streak"
      [] str = "Secret" -> "Secret"
      [] str = "General" -> "General"
      [] OTHER -> str

LowerCase(str) ==
    CASE str = "Secret" -> "secret"
      [] str = "General" -> "general"
      [] OTHER -> str

\* the increasing sequence of a finite set of integers
RECURSIVE SortedSeq(_)
SortedSeq(S) ==
    IF S = {} THEN <<>>
    ELSE LET least == CHOOSE x \in S : \A y \in S : x <= y
         IN  <<least>> \o SortedSeq(S \ {least})

(***************************************************************************)
(* EnhancedRankingUI.format_enhanced_rank_display                          *)
(***************************************************************************)
\* the progress counted from zero instead of from the start of the rank
CurrentProgressFromZero(user_rank) == user_rank.total_points

\* line 74
current_progress(user_rank) ==
    user_rank.total_points - (user_rank.next_rank_points - user_rank.points_to_next)

\* line 80: the literal of twelve fire glyphs and MAXED!
MaxedGlyphs == 12

MaxedBar ==
    [status |-> "ok", kind |-> "maxed", divided |-> FALSE,
     fill_char |-> "fire", filled |-> MaxedGlyphs, fill_glyphs |-> MaxedGlyphs,
     empty |-> 0, empty_glyphs |-> 0, label |-> "MAXED!", percentage |-> 0]

\* lines 116-126 and perk_emojis.get(perk, default)
perk_emojis(perk) ==
    CASE perk = "daily_confessions" -> "memo"
      [] perk = "priority_review" -> "zap"
      [] perk = "comment_highlight" -> "sparkles"
      [] perk = "featured_chance" -> "glowing_star"
      [] perk = "exclusive_categories" -> "unlocked"
      [] perk = "custom_emoji" -> "sunglasses"
      [] perk = "legend_badge" -> "crown"
      [] perk = "unlimited_daily" -> "infinity"
      [] perk = "all_perks" -> "rainbow"
      [] OTHER -> "gift"

\* line 134: the perks shown by their name alone
NamedPerks ==
    {"priority_review", "comment_highlight", "legend_badge", "unlimited_daily",
     "all_perks"}

\* line 135: perk.replace('_', ' ').title()
PerkTitle(perk) ==
    CASE perk = "priority_review" -> "Priority Review"
      [] perk = "comment_highlight" -> "Comment Highlight"
      [] perk = "legend_badge" -> "Legend Badge"
      [] perk = "unlimited_daily" -> "Unlimited Daily"
      [] perk = "all_perks" -> "All Perks"
      [] OTHER -> perk

\* lines 128-136: the line of one perk; a perk of no branch adds no line.  The
\* value of featured_chance is the double num/den
PerkLine(item) ==
    IF item.perk = "daily_confessions"
    THEN [shown |-> TRUE, emoji |-> perk_emojis(item.perk),
          text |-> "Daily confessions", value |-> item.value]
    ELSE IF item.perk = "featured_chance"
    THEN [shown |-> TRUE, emoji |-> perk_emojis(item.perk),
          text |-> "Featured post chance",
          value |-> FTrunc(FMulInt(FDiv(item.value[1], item.value[2]), 100))]
    ELSE IF item.perk \in NamedPerks
    THEN [shown |-> TRUE, emoji |-> perk_emojis(item.perk),
          text |-> escape_markdown_text(PerkTitle(item.perk)), value |-> 0]
    ELSE [shown |-> FALSE, emoji |-> perk_emojis(item.perk), text |-> "", value |-> 0]

\* lines 114-138: `if user_rank.special_perks:` is false for an empty dict
PerksText(special_perks) ==
    IF special_perks = <<>> THEN [header |-> FALSE, lines |-> <<>>]
    ELSE [header |-> TRUE,
          lines |-> SelectSeq([i \in 1..Len(special_perks) |-> PerkLine(special_perks[i])],
                              LAMBDA line : line.shown)]

\* lines 70-140.  `result` is the row cursor.fetchone() returned for the user
\* and `unlocked` the number of achievements the ranking manager reports
format_enhanced_rank_display(user_rank, user_id, result, unlocked) ==
    LET to_go == user_rank.points_to_next > 0
        streak_days == IF result.none THEN 0 ELSE result.consecutive_days
    IN  [status |-> "ok", kind |-> "rank",
         bar_call |-> IF to_go
                      THEN [called |-> TRUE, current |-> current_progress(user_rank),
                            maximum |-> user_rank.points_to_next,
                            length |-> RankDisplayLength]
                      ELSE [called |-> FALSE, current |-> 0, maximum |-> 0, length |-> 0],
         progress_bar |-> IF to_go
                          THEN create_advanced_progress_bar(
                                   current_progress(user_rank),
                                   user_rank.points_to_next, RankDisplayLength)
                          ELSE MaxedBar,
         next_rank_text |-> escape_markdown_text(
                                IF to_go
                                THEN [text |-> "Next: points to go",
                                      points |-> user_rank.points_to_next]
                                ELSE [text |-> "Maximum rank achieved!", points |-> 0]),
         streak_viz |-> escape_markdown_text(create_streak_visualization(streak_days)),
         rank_emoji |-> escape_markdown_text(user_rank.rank_emoji),
         rank_name |-> escape_markdown_text(user_rank.rank_name),
         rank_indicator |-> escape_markdown_text(
                                IF user_rank.is_special_rank THEN "SPECIAL RANK"
                                ELSE "Standard Rank"),
         total_points |-> user_rank.total_points,
         unlocked |-> unlocked,
         perks |-> PerksText(user_rank.special_perks)]

(***************************************************************************)
(* EnhancedRankingUI.format_enhanced_leaderboard                           *)
(***************************************************************************)
\* dict.get(key, 0) on the stats dictionary
StatsGet(stats, key) == IF key \in stats.keys THEN stats.d[key] ELSE 0

\* `if stats:` is false for None and for an empty dictionary
StatsTruthy(stats) == stats.given /\ stats.keys # {}

position_emojis ==
    <<"1st_place_medal", "2nd_place_medal", "3rd_place_medal", "sports_medal",
      "sports_medal", "star", "star", "star", "dizzy", "dizzy">>

\* position_emojis with the last key missing
PosEmojiNineOnly(position) ==
    IF position \in 1..(Len(position_emojis) - 1)
    THEN [special |-> TRUE, glyph |-> position_emojis[position], number |-> 0]
    ELSE [special |-> FALSE, glyph |-> "", number |-> position]

\* position_emojis.get(position, f"{position}\\.")
PosEmoji(position) ==
    IF position \in DOMAIN position_emojis
    THEN [special |-> TRUE, glyph |-> position_emojis[position], number |-> 0]
    ELSE [special |-> FALSE, glyph |-> "", number |-> position]

\* one row of the board; a dict entry has no attributes, so hasattr() is false
\* for it and neither badges nor streak are shown
LeaderboardRow(entry) ==
    [pos_emoji |-> PosEmoji(entry.position),
     rank_emoji |-> escape_markdown_text(entry.rank_emoji),
     name |-> escape_markdown_text(entry.anonymous_name),
     badges |-> IF entry.obj /\ entry.special_badges # <<>>
                THEN SubSeq(entry.special_badges, 1,
                            IF Len(entry.special_badges) < 2
                            THEN Len(entry.special_badges) ELSE 2)
                ELSE <<>>,
     streak_str |-> IF entry.obj /\ entry.streak_days > 0
                    THEN IF entry.streak_days >= 30 THEN "fire"
                         ELSE IF entry.streak_days >= 7 THEN "zap" ELSE ""
                    ELSE "",
     rank_name |-> escape_markdown_text(entry.rank_name),
     points |-> entry.points]

\* lines 204-248: the header, one row for each entry, the footer
LeaderboardBody(leaderboard_data, leaderboard_type, stats) ==
    [status |-> "ok", kind |-> "board",
     title |-> TitleCase(leaderboard_type),
     stats_header |-> IF StatsTruthy(stats)
                      THEN <<StatsGet(stats, "total_participants"),
                             StatsGet(stats, "average_points"),
                             StatsGet(stats, "highest_points")>>
                      ELSE <<>>,
     rows |-> [i \in 1..Len(leaderboard_data) |-> LeaderboardRow(leaderboard_data[i])],
     footer |-> "Keep climbing the ranks!"]

\* the formatter without the test for an empty list
LeaderboardUnguarded(leaderboard_data, leaderboard_type, stats) ==
    LeaderboardBody(leaderboard_data, leaderboard_type, stats)

format_enhanced_leaderboard(leaderboard_data, leaderboard_type, stats) ==
    IF leaderboard_data = <<>>
    THEN [status |-> "ok", kind |-> "placeholder",
          title |-> TitleCase(leaderboard_type),
          stats_header |-> <<>>, rows |-> <<>>,
          footer |-> "No participants yet. Be the first to earn your place!"]
    ELSE LeaderboardBody(leaderboard_data, leaderboard_type, stats)

(***************************************************************************)
(* EnhancedRankingUI.format_enhanced_achievements                          *)
(***************************************************************************)
\* achievement.get('category', 'General')
CategoryOf(achievement) ==
    IF achievement.has_category THEN achievement.category ELSE "General"

category_emojis(category) ==
    CASE category = "streak" -> "zap"
      [] category = "secret" -> "crystal_ball"
      [] OTHER -> "trophy"

\* the categories in the order in which the dictionary first saw them
CategoryOrder(achievements) ==
    LET first == {i \in 1..Len(achievements) :
                    \A j \in 1..(i - 1) :
                        CategoryOf(achievements[j]) # CategoryOf(achievements[i])}
        idx == SortedSeq(first)
    IN  [k \in 1..Len(idx) |-> CategoryOf(achievements[idx[k]])]

AchievementRow(achievement) ==
    [special_mark |-> IF achievement.is_special THEN "star" ELSE "trophy",
     name |-> escape_markdown_text(achievement.name),
     description |-> escape_markdown_text(achievement.description),
     points |-> achievement.points,
     date_str |-> escape_markdown_text(IF achievement.has_date
                                       THEN achievement.date[1] ELSE "Recent")]

\* how many achievements of a category are shown
MaxShown == 3

\* the section of one category, showing `shown` rows at most
CategorySectionCap(achievements, category, shown) ==
    LET cat_achievements ==
            SelectSeq(achievements, LAMBDA a : CategoryOf(a) = category)
        n == Len(cat_achievements)
        head == SubSeq(cat_achievements, 1, IF n < shown THEN n ELSE shown)
    IN  [category |-> category,
         emoji |-> category_emojis(LowerCase(category)),
         title |-> TitleCase(category),
         rows |-> [i \in 1..Len(head) |-> AchievementRow(head[i])],
         has_more |-> n > MaxShown,
         more |-> IF n > MaxShown THEN n - MaxShown ELSE 0]

\* the section showing one row more than the cap
CategorySectionOffByOne(achievements, category) ==
    CategorySectionCap(achievements, category, MaxShown + 1)

CategorySection(achievements, category) ==
    CategorySectionCap(achievements, category, MaxShown)

\* total_possible is the size of the catalogue of EnhancedAchievementSystem
format_enhanced_achievements(achievements, user_achievements_count, total_possible) ==
    IF achievements = <<>>
    THEN [status |-> "ok", kind |-> "placeholder", earned |-> 0,
          sections |-> <<>>, progress |-> <<0, 0, 0>>]
    ELSE IF total_possible = 0 THEN Raised("ZeroDivisionError")
    ELSE LET order == CategoryOrder(achievements)
             progress == FMulInt(FDiv(Len(achievements), total_possible), 100)
         IN  [status |-> "ok", kind |-> "list",
              earned |-> Len(achievements),
              sections |-> [k \in 1..Len(order) |->
                              CategorySection(achievements, order[k])],
              progress |-> <<Len(achievements), total_possible, FTenths(progress)>>]

(***************************************************************************)
(* bot_web.py: the status record, the environment and the log              *)
(***************************************************************************)
None == [none |-> TRUE, at |-> 0]
Time(t) == [none |-> FALSE, at |-> t]

\* the module-level record before the bot thread ran
InitialBotStatus == [running |-> FALSE, start_time |-> None, last_activity |-> None]

required_vars == <<"BOT_TOKEN", "CHANNEL_ID", "BOT_USERNAME", "ADMIN_ID_1">>

EnvNames == {required_vars[i] : i \in 1..Len(required_vars)} \cup {"PORT"}

\* os.getenv(var) is None for an unset variable and "" for an empty one: both
\* are false
GetenvTruthy(e, var) == e[var] \notin {"unset", "empty"}

\* check_environment that takes an empty value for a set one
CheckEnvironmentUnsetOnly(e) ==
    LET missing_vars == SelectSeq(required_vars, LAMBDA var : e[var] = "unset")
    IN  [ok |-> missing_vars = <<>>, missing_vars |-> missing_vars]

check_environment(e) ==
    LET missing_vars == SelectSeq(required_vars, LAMBDA var : ~GetenvTruthy(e, var))
    IN  [ok |-> missing_vars = <<>>, missing_vars |-> missing_vars]

NoReq == [path |-> "", pc |-> "idle", timestamp |-> 0, running |-> FALSE]

NoResponse == [path |-> "", code |-> 0, body |-> [none |-> TRUE]]

WebNotStarted ==
    /\ env = [v \in EnvNames |-> IF v = "PORT" THEN "unset" ELSE "value"]
    /\ main_pc = "start"
    /\ exit_code = -1
    /\ bot_pc = "unstarted"
    /\ bot_status = InitialBotStatus
    /\ events = <<>>
    /\ now = 0
    /\ log = {}
    /\ req = NoReq
    /\ response = NoResponse

(***************************************************************************)
(* The display calls.  The arguments of a call are drawn when the          *)
(* behaviour starts; the call itself is one step.                          *)
(***************************************************************************)
BarArgs ==
    [current : (-MaxPoints)..MaxPoints, maximum : (-MaxPoints)..MaxPoints,
     length : Lengths]

StreakArgs == [streak_days : (-MaxNegStreak)..MaxStreak]

\* the leaderboards of the model: n entries in the order of their points, the
\* position of an entry is its place in that order (the data model of
\* LeaderboardEntry: 1-based, contiguous, assigned by sort order)
StreakSamples == <<0, 3, 7, 30>>
BadgeSamples == <<"badge_a", "badge_b", "badge_c">>

Entries(n, seed, obj) ==
    [i \in 1..n |->
        [obj |-> obj,
         position |-> i,
         anonymous_name |-> (i + seed) % (MaxEntries + 2),
         points |-> (n - i) * 10 + seed,
         rank_emoji |-> "rank_emoji",
         rank_name |-> "rank_name",
         streak_days |-> StreakSamples[((i + seed) % Len(StreakSamples)) + 1],
         special_badges |-> SubSeq(BadgeSamples, 1, (i + seed) % (Len(BadgeSamples) + 1))]]

LeaderboardTypes == {"weekly", "alltime", "seasonal"}

StatsKeys == {"total_participants", "average_points", "highest_points"}

StatsChoices ==
    {[given |-> FALSE, keys |-> {}, d |-> [k \in StatsKeys |-> 0]],
     [given |-> TRUE, keys |-> {}, d |-> [k \in StatsKeys |-> 0]],
     [given |-> TRUE, keys |-> {"total_participants"},
      d |-> [k \in StatsKeys |-> 4]],
     [given |-> TRUE, keys |-> StatsKeys,
      d |-> [k \in StatsKeys |-> IF k = "total_participants" THEN 5
                                  ELSE IF k = "average_points" THEN 1200 ELSE 2500]]}

BoardArgs ==
    {[leaderboard_data |-> Entries(n, seed, obj), leaderboard_type |-> t, stats |-> st] :
        n \in 0..MaxEntries, seed \in 0..MaxSeed, obj \in BOOLEAN,
        t \in LeaderboardTypes, st \in StatsChoices}

\* the achievement lists of the model: every sequence of categories (or of no
\* category) up to MaxAchievements long
CategoryChoices == {"streak", "Secret", "-"}

Achievement(i, category) ==
    [has_category |-> category # "-",
     category |-> category,
     name |-> i,
     description |-> i,
     points |-> 10 * i,
     has_date |-> i % 2 = 0,
     date |-> <<"2024-01-15", "T10:30:00">>,
     is_special |-> i % 3 = 0]

AchievementLists ==
    UNION {{[i \in 1..n |-> Achievement(i, cats[i])] : cats \in [1..n -> CategoryChoices]} :
             n \in 0..MaxAchievements}

\* len(EnhancedAchievementSystem().get_all_achievements()): the catalogue the
\* earned achievements come from is not empty
CatalogueSizes == 1..MaxCatalogue

AchievementArgs ==
    [achievements : AchievementLists, user_achievements_count : {0},
     total_possible : CatalogueSizes]

\* the ranks the rank calculator hands to the display: below the ceiling
\* points_to_next = next_rank_points - total_points > 0; at the ceiling
\* points_to_next = 0 and next_rank_points holds no further threshold
UserRanks ==
    {[total_points |-> t,
      next_rank_points |-> IF p > 0 THEN t + p ELSE IF ceiling = "own" THEN t ELSE 0,
      points_to_next |-> p,
      rank_emoji |-> "rank_emoji",
      rank_name |-> "rank_name",
      is_special_rank |-> special,
      special_perks |->
         IF special
         THEN <<[perk |-> "daily_confessions", value |-> 5],
                [perk |-> "featured_chance", value |-> <<29, 100>>],
                [perk |-> "priority_review", value |-> TRUE],
                [perk |-> "custom_emoji", value |-> TRUE]>>
         ELSE <<>>] :
        t \in 0..MaxPoints, p \in 0..MaxPoints, ceiling \in {"own", "zero"},
        special \in BOOLEAN}

\* cursor.fetchone(): no row for the user, or the row of consecutive_days
NoRow == [none |-> TRUE, consecutive_days |-> 0]

StreakRows == {NoRow} \cup {[none |-> FALSE, consecutive_days |-> d] : d \in {0, 8}}

RankArgs ==
    {[user_rank |-> ur, user_id |-> 1, result |-> row,
      unlocked |-> IF row.none THEN 0 ELSE 2] :
        ur \in UserRanks, row \in StreakRows}

InitUI ==
    /\ WebNotStarted
    /\ ui_pc = "call"
    /\ ui_ret = NoRet
    /\ ui_prev = NoPrev
    /\ \/ ui_fn = "create_advanced_progress_bar" /\ ui_args \in BarArgs
       \/ ui_fn = "create_streak_visualization" /\ ui_args \in StreakArgs
       \/ ui_fn = "format_enhanced_leaderboard" /\ ui_args \in BoardArgs
       \/ ui_fn = "format_enhanced_achievements" /\ ui_args \in AchievementArgs
       \/ ui_fn = "format_enhanced_rank_display" /\ ui_args \in RankArgs

CallProgressBar ==
    /\ ui_pc = "call"
    /\ ui_fn = "create_advanced_progress_bar"
    /\ ui_ret' = create_advanced_progress_bar(ui_args.current, ui_args.maximum,
                                              ui_args.length)
    /\ ui_pc' = "returned"
    /\ UNCHANGED <<ui_fn, ui_args, ui_prev>>
    /\ UNCHANGED web_vars

\* the caller renders the bar again after `current` grew by one, `maximum` and
\* `length` unchanged
RaiseCurrent ==
    /\ ui_pc = "returned"
    /\ ui_fn = "create_advanced_progress_bar"
    /\ ui_args.current < MaxPoints
    /\ ui_prev' = [valid |-> TRUE, args |-> ui_args, ret |-> ui_ret]
    /\ ui_args' = [ui_args EXCEPT !.current = @ + 1]
    /\ ui_ret' = NoRet
    /\ ui_pc' = "call"
    /\ UNCHANGED ui_fn
    /\ UNCHANGED web_vars

CallStreak ==
    /\ ui_pc = "call"
    /\ ui_fn = "create_streak_visualization"
    /\ ui_ret' = create_streak_visualization(ui_args.streak_days)
    /\ ui_pc' = "returned"
    /\ UNCHANGED <<ui_fn, ui_args, ui_prev>>
    /\ UNCHANGED web_vars

CallLeaderboard ==
    /\ ui_pc = "call"
    /\ ui_fn = "format_enhanced_leaderboard"
    /\ ui_ret' = format_enhanced_leaderboard(ui_args.leaderboard_data,
                                             ui_args.leaderboard_type, ui_args.stats)
    /\ ui_pc' = "returned"
    /\ UNCHANGED <<ui_fn, ui_args, ui_prev>>
    /\ UNCHANGED web_vars

CallAchievements ==
    /\ ui_pc = "call"
    /\ ui_fn = "format_enhanced_achievements"
    /\ ui_ret' = format_enhanced_achievements(ui_args.achievements,
                                              ui_args.user_achievements_count,
                                              ui_args.total_possible)
    /\ ui_pc' = "returned"
    /\ UNCHANGED <<ui_fn, ui_args, ui_prev>>
    /\ UNCHANGED web_vars

CallRankDisplay ==
    /\ ui_pc = "call"
    /\ ui_fn = "format_enhanced_rank_display"
    /\ ui_ret' = format_enhanced_rank_display(ui_args.user_rank, ui_args.user_id,
                                              ui_args.result, ui_args.unlocked)
    /\ ui_pc' = "returned"
    /\ UNCHANGED <<ui_fn, ui_args, ui_prev>>
    /\ UNCHANGED web_vars

NextUI ==
    \/ CallProgressBar
    \/ RaiseCurrent
    \/ CallStreak
    \/ CallLeaderboard
    \/ CallAchievements
    \/ CallRankDisplay

SpecUI == InitUI /\ [][NextUI]_vars

(***************************************************************************)
(* bot_web.py: the __main__ block                                          *)
(***************************************************************************)
\* time.sleep(2)
SleepSeconds == 2

UiIdle ==
    /\ ui_pc = "idle"
    /\ ui_fn = "none"
    /\ ui_args = NoArgs
    /\ ui_ret = NoRet
    /\ ui_prev = NoPrev

InitWeb ==
    /\ UiIdle
    /\ env \in [EnvNames -> {"unset", "empty", "value", "garbage"}]
    /\ \A v \in EnvNames : (env[v] = "garbage") => (v = "PORT")
    /\ env["PORT"] # "empty"
    /\ main_pc = "start"
    /\ exit_code = -1
    /\ bot_pc = "unstarted"
    /\ bot_status = InitialBotStatus
    /\ events = <<>>
    /\ now = 0
    /\ log = {}
    /\ req = NoReq
    /\ response = NoResponse

\* the process runs until the main thread exits or dies; the bot thread is a
\* daemon thread and ends with it
ProcessAlive == main_pc \notin {"exited", "crashed"}

\* lines 102-104: if not check_environment(): sys.exit(1)
MainCheckEnvironment ==
    /\ main_pc = "start"
    /\ IF check_environment(env).ok
       THEN /\ log' = log \cup {"All required environment variables are set"}
            /\ main_pc' = "start_thread"
            /\ UNCHANGED exit_code
       ELSE /\ log' = log \cup {"Missing required environment variables",
                                "Environment check failed. Exiting."}
            /\ main_pc' = "exited"
            /\ exit_code' = 1
    /\ UNCHANGED <<env, bot_pc, bot_status, events, now, req, response>>
    /\ UNCHANGED ui_vars

\* lines 107-109: threading.Thread(target=run_bot, daemon=True).start()
MainStartThread ==
    /\ main_pc = "start_thread"
    /\ bot_pc' = "run_bot"
    /\ main_pc' = "sleep"
    /\ log' = log \cup {"Starting bot thread..."}
    /\ UNCHANGED <<env, exit_code, bot_status, events, now, req, response>>
    /\ UNCHANGED ui_vars

\* line 112: time.sleep(2)
MainSleep ==
    /\ main_pc = "sleep"
    /\ now' = IF now + SleepSeconds > MaxTime THEN MaxTime ELSE now + SleepSeconds
    /\ main_pc' = "run_server"
    /\ UNCHANGED <<env, exit_code, bot_pc, bot_status, events, log, req, response>>
    /\ UNCHANGED ui_vars

\* lines 115-123: int(os.environ.get("PORT", 10000)) raises ValueError on a
\* value that is no number; otherwise app.run() serves
MainRunServer ==
    /\ main_pc = "run_server"
    /\ IF env["PORT"] = "garbage"
       THEN /\ main_pc' = "crashed"
            /\ exit_code' = 1
            /\ UNCHANGED log
       ELSE /\ main_pc' = "serving"
            /\ log' = log \cup {"Starting web server"}
            /\ UNCHANGED exit_code
    /\ UNCHANGED <<env, bot_pc, bot_status, events, now, req, response>>
    /\ UNCHANGED ui_vars

(***************************************************************************)
(* bot_web.py: run_bot, the target of the bot thread                       *)
(***************************************************************************)
\* what the except clause of run_bot does to the status record (line 72)
ExceptKeepsRunning(status) == status

\* the except clause putting the whole record back to its initial value
ExceptResetsRecord(status) == [status EXCEPT !.running = FALSE, !.start_time = None]

ExceptStatus(status) == [status EXCEPT !.running = FALSE]

\* lines 60-61
BotSetStartTime ==
    /\ ProcessAlive
    /\ bot_pc = "run_bot"
    /\ log' = log \cup {"Starting Telegram bot thread..."}
    /\ bot_status' = [bot_status EXCEPT !.start_time = Time(now)]
    /\ bot_pc' = "line_62"
    /\ UNCHANGED <<env, main_pc, exit_code, events, now, req, response>>
    /\ UNCHANGED ui_vars

\* line 62
BotSetRunning ==
    /\ ProcessAlive
    /\ bot_pc = "line_62"
    /\ bot_status' = [bot_status EXCEPT !.running = TRUE]
    /\ bot_pc' = "line_65"
    /\ UNCHANGED <<env, main_pc, exit_code, events, now, log, req, response>>
    /\ UNCHANGED ui_vars

\* lines 65-66: from bot import main as bot_main, which may raise
BotImport ==
    /\ ProcessAlive
    /\ bot_pc = "line_65"
    /\ \/ /\ log' = log \cup {"Bot modules loaded successfully"}
          /\ bot_pc' = "bot_main"
       \/ /\ bot_pc' = "line_71"
          /\ UNCHANGED log
    /\ UNCHANGED <<env, main_pc, exit_code, bot_status, events, now, req, response>>
    /\ UNCHANGED ui_vars

\* line 68, inside bot_main(): the bot takes up an update and handles it
BotHandlesUpdate ==
    /\ ProcessAlive
    /\ bot_pc = "bot_main"
    /\ Len(events) < MaxEvents
    /\ events' = Append(events, "handled")
    /\ UNCHANGED <<env, main_pc, exit_code, bot_pc, bot_status, now, log, req, response>>
    /\ UNCHANGED ui_vars

\* line 68, inside bot_main(): handling an update raises and the exception
\* leaves bot_main
BotUpdateRaises ==
    /\ ProcessAlive
    /\ bot_pc = "bot_main"
    /\ Len(events) < MaxEvents
    /\ events' = Append(events, "raised")
    /\ bot_pc' = "line_71"
    /\ UNCHANGED <<env, main_pc, exit_code, bot_status, now, log, req, response>>
    /\ UNCHANGED ui_vars

\* line 68: bot_main() raises for another reason than an update
BotMainRaises ==
    /\ ProcessAlive
    /\ bot_pc = "bot_main"
    /\ bot_pc' = "line_71"
    /\ UNCHANGED <<env, main_pc, exit_code, bot_status, events, now, log, req, response>>
    /\ UNCHANGED ui_vars

\* line 68: bot_main() returns; run_bot ends and so does the thread
BotMainReturns ==
    /\ ProcessAlive
    /\ bot_pc = "bot_main"
    /\ bot_pc' = "returned"
    /\ UNCHANGED <<env, main_pc, exit_code, bot_status, events, now, log, req, response>>
    /\ UNCHANGED ui_vars

\* lines 70-71: except Exception as e: logger.error(...)
BotExceptLog ==
    /\ ProcessAlive
    /\ bot_pc = "line_71"
    /\ log' = log \cup {"Bot thread error"}
    /\ bot_pc' = "line_72"
    /\ UNCHANGED <<env, main_pc, exit_code, bot_status, events, now, req, response>>
    /\ UNCHANGED ui_vars

\* line 72: bot_status["running"] = False
BotExceptStatus ==
    /\ ProcessAlive
    /\ bot_pc = "line_72"
    /\ bot_status' = ExceptStatus(bot_status)
    /\ bot_pc' = "line_73"
    /\ UNCHANGED <<env, main_pc, exit_code, events, now, log, req, response>>
    /\ UNCHANGED ui_vars

\* line 73: raise.  The exception ends the bot thread; the other threads go on
BotReraise ==
    /\ ProcessAlive
    /\ bot_pc = "line_73"
    /\ bot_pc' = "died"
    /\ UNCHANGED <<env, main_pc, exit_code, bot_status, events, now, log, req, response>>
    /\ UNCHANGED ui_vars

(***************************************************************************)
(* bot_web.py: the routes of the Flask application                         *)
(***************************************************************************)
Routes == {"/", "/health", "/ping"}

\* the paths requested of the service; "/webhook" is a path a chat platform
\* would post updates to
Paths == Routes \cup {"/webhook"}

\* a request arrives.  /ping answers at once; a path without a route is
\* answered by the framework with 404
ReceiveRequest ==
    /\ main_pc = "serving"
    /\ req.pc = "idle"
    /\ \E path \in Paths :
          CASE path = "/" ->
                 /\ req' = [NoReq EXCEPT !.path = path, !.pc = "home_35"]
                 /\ UNCHANGED response
            [] path = "/health" ->
                 /\ req' = [NoReq EXCEPT !.path = path, !.pc = "health_43"]
                 /\ UNCHANGED response
            [] path = "/ping" ->
                 /\ response' = [path |-> path, code |-> 200, body |-> [text |-> "pong"]]
                 /\ req' = NoReq
            [] OTHER ->
                 /\ response' = [path |-> path, code |-> 404, body |-> [text |-> "Not Found"]]
                 /\ req' = NoReq
    /\ UNCHANGED <<env, main_pc, exit_code, bot_pc, bot_status, events, now, log>>
    /\ UNCHANGED ui_vars

\* home(), lines 34-35: the timestamp and bot_status["running"]
HomeReadRunning ==
    /\ main_pc = "serving"
    /\ req.pc = "home_35"
    /\ req' = [req EXCEPT !.pc = "home_36", !.timestamp = now,
                          !.running = bot_status.running]
    /\ UNCHANGED <<env, main_pc, exit_code, bot_pc, bot_status, events, now, log, response>>
    /\ UNCHANGED ui_vars

\* home(), line 36: the uptime, and the response
HomeRespond ==
    /\ main_pc = "serving"
    /\ req.pc = "home_36"
    /\ response' =
          [path |-> "/", code |-> 200,
           body |-> [status |-> "healthy",
                     timestamp |-> req.timestamp,
                     bot_running |-> req.running,
                     uptime |-> IF ~bot_status.start_time.none
                                THEN now - bot_status.start_time.at ELSE 0]]
    /\ req' = NoReq
    /\ UNCHANGED <<env, main_pc, exit_code, bot_pc, bot_status, events, now, log>>
    /\ UNCHANGED ui_vars

\* health(), line 43: "ok" if bot_status["running"] else "error"
HealthReadRunning ==
    /\ main_pc = "serving"
    /\ req.pc = "health_43"
    /\ req' = [req EXCEPT !.pc = "health_44", !.running = bot_status.running]
    /\ UNCHANGED <<env, main_pc, exit_code, bot_pc, bot_status, events, now, log, response>>
    /\ UNCHANGED ui_vars

\* health(), lines 44-49: the status record, the environment flags, the response
HealthRespond ==
    /\ main_pc = "serving"
    /\ req.pc = "health_44"
    /\ response' =
          [path |-> "/health", code |-> 200,
           body |-> [status |-> IF req.running THEN "ok" ELSE "error",
                     bot_status |-> bot_status,
                     environment |->
                        [bot_token_set |-> GetenvTruthy(env, "BOT_TOKEN"),
                         channel_id_set |-> GetenvTruthy(env, "CHANNEL_ID"),
                         admin_id_set |-> GetenvTruthy(env, "ADMIN_ID_1")]]]
    /\ req' = NoReq
    /\ UNCHANGED <<env, main_pc, exit_code, bot_pc, bot_status, events, now, log>>
    /\ UNCHANGED ui_vars

\* the wall clock advances
Tick ==
    /\ ProcessAlive
    /\ now < MaxTime
    /\ now' = now + 1
    /\ UNCHANGED <<env, main_pc, exit_code, bot_pc, bot_status, events, log, req, response>>
    /\ UNCHANGED ui_vars

NextWeb ==
    \/ MainCheckEnvironment
    \/ MainStartThread
    \/ MainSleep
    \/ MainRunServer
    \/ BotSetStartTime
    \/ BotSetRunning
    \/ BotImport
    \/ BotHandlesUpdate
    \/ BotUpdateRaises
    \/ BotMainRaises
    \/ BotMainReturns
    \/ BotExceptLog
    \/ BotExceptStatus
    \/ BotReraise
    \/ ReceiveRequest
    \/ HomeReadRunning
    \/ HomeRespond
    \/ HealthReadRunning
    \/ HealthRespond
    \/ Tick

SpecWeb == InitWeb /\ [][NextWeb]_vars


(***************************************************************************)
(* The claims about the display layer, checked under SpecUI.               *)
(***************************************************************************)
Returned(fn) == ui_pc = "returned" /\ ui_fn = fn

C2_MonotonicInCurrent ==
    (/\ Returned("create_advanced_progress_bar")
     /\ ui_prev.valid
     /\ ui_args.maximum # 0)
    => /\ ui_prev.args.maximum = ui_args.maximum
       /\ ui_prev.args.current <= ui_args.current
       /\ ui_prev.ret.percentage <= ui_ret.percentage

\* C3: for maximum = 0 the progress bar is the "max" indicator, `length` fill
\* glyphs and the MAX LEVEL label, for every current, and nothing is divided.
C3_ZeroMaximumIsMaxLevel ==
    (Returned("create_advanced_progress_bar") /\ ui_args.maximum = 0)
    => /\ ui_ret.status = "ok"
       /\ ui_ret.kind = "max"
       /\ ui_ret.fill_char = "fire"
       /\ ui_ret.fill_glyphs = ui_args.length
       /\ ui_ret.empty_glyphs = 0
       /\ ui_ret.label = "MAX LEVEL"
       /\ ~ui_ret.divided

\* the call with current = 0 and maximum = 0 has returned the indicator
C3_Witness ==
    /\ Returned("create_advanced_progress_bar")
    /\ ui_args.current = 0
    /\ ui_args.maximum = 0
    /\ ui_ret.label = "MAX LEVEL"

\* current/maximum >= num/den in exact arithmetic, den > 0 and maximum # 0
RatioAtLeast(current, maximum, num, den) ==
    IF maximum > 0 THEN current * den >= num * maximum
    ELSE current * den <= num * maximum

\* the band of the exact ratio: 1 for >= 90%, 2 for >= 70%, 3 for >= 50%,
\* 4 for >= 30%, 5 below
RatioBand(current, maximum) ==
    IF RatioAtLeast(current, maximum, 9, 10) THEN 1
    ELSE IF RatioAtLeast(current, maximum, 7, 10) THEN 2
    ELSE IF RatioAtLeast(current, maximum, 5, 10) THEN 3
    ELSE IF RatioAtLeast(current, maximum, 3, 10) THEN 4
    ELSE 5

BandGlyphs == <<"fire", "star", "dizzy", "sparkles", "glowing_star">>

\* C4: for maximum # 0 the fill glyph is the one of the band of the ratio
\* min(current/maximum, 1): >= 90% the first, >= 70% the second, >= 50% the
\* third, >= 30% the fourth, the fifth below; a ratio on a boundary is in the
\* higher band.
C4_FiveBands ==
    (Returned("create_advanced_progress_bar") /\ ui_args.maximum # 0)
    => /\ ui_ret.status = "ok"
       /\ ui_ret.fill_char = BandGlyphs[RatioBand(ui_args.current, ui_args.maximum)]

\* a ratio of exactly 70% got the glyph of the second band
C4_Witness ==
    /\ Returned("create_advanced_progress_bar")
    /\ ui_args.maximum > 0
    /\ ui_args.current * 10 = 7 * ui_args.maximum
    /\ ui_ret.fill_char = "star"

StreakThresholds == <<1, 7, 30, 90, 365>>

\* the band of a streak: how many of the thresholds it has reached
StreakBand(days) ==
    Cardinality({i \in 1..Len(StreakThresholds) : StreakThresholds[i] <= days})

StreakPhrases ==
    <<"No streak yet - start your journey!", "keep it up!", "you're on fire!",
      "amazing dedication!", "you're a legend!", "ULTIMATE DEVOTEE!">>

\* C5: for every streak_days >= 0 create_streak_visualization returns the
\* label of exactly one of the six bands 0, 1..6, 7..29, 30..89, 90..364 and
\* >= 365: 0 is "no streak", 400 is in the last band, and each of 7, 30, 90
\* and 365 is in the band above the one of the day before.
C5_StreakBands ==
    (Returned("create_streak_visualization") /\ ui_args.streak_days >= 0)
    => /\ ui_ret.status = "ok"
       /\ ui_ret.phrase = StreakPhrases[StreakBand(ui_args.streak_days) + 1]
       /\ ui_ret.shows_days = (ui_args.streak_days # 0)
       /\ ui_ret.shows_days => ui_ret.days = ui_args.streak_days

\* a streak of 400 days got the label of the last band
C5_Witness ==
    /\ Returned("create_streak_visualization")
    /\ ui_args.streak_days = 400
    /\ ui_ret.phrase = "ULTIMATE DEVOTEE!"

\* the label of row i when positions follow the order of the list
OrderLabel(i) ==
    IF i \in 1..10
    THEN [special |-> TRUE, glyph |-> position_emojis[i], number |-> 0]
    ELSE [special |-> FALSE, glyph |-> "", number |-> i]

C7_EmptyBoardIsPlaceholder ==
    (Returned("format_enhanced_leaderboard") /\ ui_args.leaderboard_data = <<>>)
    => /\ ui_ret.status = "ok"
       /\ ui_ret.kind = "placeholder"
       /\ ui_ret.footer = "No participants yet. Be the first to earn your place!"
       /\ ui_ret.rows = <<>>
       /\ ui_ret.stats_header = <<>>

\* the placeholder returned for an empty list passed with filled-in stats
C7_Witness ==
    /\ Returned("format_enhanced_leaderboard")
    /\ ui_args.leaderboard_data = <<>>
    /\ ui_args.stats.given
    /\ ui_args.stats.keys = StatsKeys
    /\ ui_ret.kind = "placeholder"

\* the places in the list of the achievements of a category
IndicesOf(achievements, category) ==
    {i \in 1..Len(achievements) : CategoryOf(achievements[i]) = category}

CategoriesOf(achievements) ==
    {CategoryOf(achievements[i]) : i \in 1..Len(achievements)}

\* C8: for an achievement list that is not empty, every category has one
\* section; a category of n achievements shows its first min(n, 3)
\* achievements in the order of the list, and an "and n-3 more" line exactly
\* when n > 3; the title counts all achievements.
C8_ThreeShownPerCategory ==
    (Returned("format_enhanced_achievements") /\ ui_args.achievements # <<>>)
    => /\ ui_ret.status = "ok"
       /\ ui_ret.earned = Len(ui_args.achievements)
       /\ Len(ui_ret.sections) = Cardinality(CategoriesOf(ui_args.achievements))
       /\ \A category \in CategoriesOf(ui_args.achievements) :
             \E k \in 1..Len(ui_ret.sections) :
                LET section == ui_ret.sections[k]
                    idx == SortedSeq(IndicesOf(ui_args.achievements, category))
                    n == Len(idx)
                IN  /\ section.category = category
                    /\ Len(section.rows) = (IF n < 3 THEN n ELSE 3)
                    /\ \A r \in 1..Len(section.rows) :
                          section.rows[r].name =
                             escape_markdown_text(ui_args.achievements[idx[r]].name)
                    /\ section.has_more = (n > 3)
                    /\ section.has_more => section.more = n - 3

\* a list of two categories, one of them with more than three achievements
C8_Witness ==
    /\ Returned("format_enhanced_achievements")
    /\ Cardinality(CategoriesOf(ui_args.achievements)) = 2
    /\ \E k \in 1..Len(ui_ret.sections) :
          /\ ui_ret.sections[k].has_more
          /\ Len(ui_ret.sections[k].rows) = 3
          /\ ui_ret.sections[k].more = 1

\* C11, as claimed: for maximum # 0 the bar has exactly `length` glyphs: the
\* filled count and the empty count are both in 0..length and sum to length,
\* for every current and every non-zero maximum, negative ones included.
C11_FixedLengthBar ==
    (Returned("create_advanced_progress_bar") /\ ui_args.maximum # 0)
    => /\ ui_ret.filled \in 0..ui_args.length
       /\ ui_ret.empty \in 0..ui_args.length
       /\ ui_ret.filled + ui_ret.empty = ui_args.length
       /\ ui_ret.fill_glyphs + ui_ret.empty_glyphs = ui_args.length

\* the rank invariant below the ceiling
RankInvariant(user_rank) ==
    /\ user_rank.points_to_next = user_rank.next_rank_points - user_rank.total_points
    /\ user_rank.points_to_next > 0

\* C12: in format_enhanced_rank_display, for a rank with points_to_next =
\* next_rank_points - total_points > 0 the progress passed to the bar is 0,
\* so the bar has no filled cell and reports 0% whatever total_points is; the
\* maxed indicator is shown exactly when points_to_next is not above 0.
C12_RankBarAlwaysEmpty ==
    Returned("format_enhanced_rank_display")
    => /\ RankInvariant(ui_args.user_rank)
            => /\ ui_ret.bar_call.called
               /\ ui_ret.bar_call.current = 0
               /\ ui_ret.bar_call.maximum = ui_args.user_rank.points_to_next
               /\ ui_ret.progress_bar.kind = "bar"
               /\ ui_ret.progress_bar.filled = 0
               /\ ui_ret.progress_bar.fill_glyphs = 0
               /\ ui_ret.progress_bar.empty_glyphs = RankDisplayLength
               /\ ui_ret.progress_bar.percentage = 0
       /\ (ui_ret.progress_bar.kind = "maxed")
            <=> ~(ui_args.user_rank.points_to_next > 0)
       /\ (ui_ret.progress_bar.kind = "maxed") <=> ~ui_ret.bar_call.called

\* a rank one point short of the next threshold is displayed with an empty bar
C12_Witness ==
    /\ Returned("format_enhanced_rank_display")
    /\ ui_args.user_rank.total_points = MaxPoints
    /\ ui_args.user_rank.points_to_next = 1
    /\ ui_args.user_rank.next_rank_points = MaxPoints + 1
    /\ ui_ret.progress_bar.kind = "bar"
    /\ ui_ret.progress_bar.percentage = 0

(***************************************************************************)
(* The claims about the web service, checked under SpecWeb.                *)
(***************************************************************************)
\* a required variable is unset or empty
MissingConfiguration ==
    \E i \in 1..Len(required_vars) : env[required_vars[i]] \in {"unset", "empty"}

\* C9: with BOT_TOKEN, CHANNEL_ID, BOT_USERNAME or ADMIN_ID_1 unset or empty
\* the process exits with status 1 before the bot thread is started and
\* before the web server serves; thread and server are started only after
\* check_environment returned True.
C9_MissingConfigurationIsFatal ==
    /\ MissingConfiguration
          => /\ main_pc \in {"start", "exited"}
             /\ bot_pc = "unstarted"
             /\ bot_status = InitialBotStatus
             /\ req = NoReq
             /\ response = NoResponse
    /\ (MissingConfiguration /\ main_pc = "exited") => exit_code = 1
    /\ main_pc = "exited"
          => /\ MissingConfiguration
             /\ "Environment check failed. Exiting." \in log
    /\ (bot_pc # "unstarted" \/ main_pc \in {"start_thread", "sleep", "run_server", "serving"})
          => /\ ~MissingConfiguration
             /\ "All required environment variables are set" \in log

\* the process has exited because BOT_USERNAME alone is empty
C9_Witness ==
    /\ main_pc = "exited"
    /\ exit_code = 1
    /\ env["BOT_USERNAME"] = "empty"
    /\ \A v \in {"BOT_TOKEN", "CHANNEL_ID", "ADMIN_ID_1"} : env[v] = "value"
    /\ bot_pc = "unstarted"

AnUpdateRaised == \E i \in 1..Len(events) : events[i] = "raised"

HandlerStep == req' # req \/ response' # response

\* C13: under every interleaving of run_bot with the handlers home and
\* health, running = True implies that start_time is set; start_time, once
\* set, is never None again; no step of a handler writes the status record;
\* and the uptime home reports is 0 while start_time is unset and is not
\* negative afterwards.
C13_StatusRecordConsistent ==
    /\ [](/\ bot_status.running => ~bot_status.start_time.none
          /\ response.path = "/" => response.body.uptime >= 0
          /\ (response.path = "/" /\ bot_status.start_time.none)
                => response.body.uptime = 0)
    /\ [][/\ ~bot_status.start_time.none => ~bot_status'.start_time.none
          /\ HandlerStep => bot_status' = bot_status
          /\ (req.pc = "home_36" /\ req'.pc = "idle")
                => /\ response'.path = "/"
                   /\ bot_status.start_time.none => response'.body.uptime = 0
                   /\ response'.body.uptime >= 0]_vars

\* home read running = False, the bot thread then set it, and home reported
\* a positive uptime with bot_running false
C13_Witness ==
    /\ response.path = "/"
    /\ response.body.uptime > 0
    /\ ~response.body.bot_running
    /\ bot_status.running
    /\ ~bot_status.start_time.none

\* run_bot has ended: by the exception raised again or by returning
BotThreadEnded == bot_pc \in {"died", "returned"}

\* C14, as claimed: once run_bot has ended, by an exception of the import or
\* of bot_main or by the normal return of bot_main, running is False and
\* every /health request from then on reads it so and returns the status
\* "error"; running is never True before the bot thread started.
C14_OkOnlyWhileBotThreadRuns ==
    /\ [](/\ BotThreadEnded => ~bot_status.running
          /\ bot_pc = "unstarted" => ~bot_status.running)
    /\ [][(BotThreadEnded /\ req.pc = "health_43" /\ req'.pc = "health_44")
             => ~req'.running]_vars

====
